---- MODULE Spec2Model ----
(***************************************************************************)
(* Model of nanogui/common.h: the Color value type, its constructors,      *)
(* assignment and channel accessors, Color::contrastingColor, the icon     *)
(* predicates, utf8() and the modifier and key codes.  The header keeps no *)
(* state between calls, so the state of the model is the frame of the call *)
(* in progress: which function ran, the arguments it was given and what it *)
(* produced; the frame is dropped when the caller is done with the value.  *)
(*                                                                         *)
(* int is a 32-bit two's complement integer.  A float is an IEEE binary32  *)
(* value <<m, e>> standing for m * 2^e, with every operation rounded to    *)
(* nearest, ties to even; infinities and NaN are outside the model, and so *)
(* is a build that contracts a product and a sum into a fused              *)
(* multiply-add.  Eigen's x / 255.f is a division (not a multiplication by *)
(* the reciprocal) and Eigen's sum() adds in one of three orders, fixed by *)
(* the build.  A char is modelled by its value, which depends on whether   *)
(* the build's plain char is signed.                                       *)
(***************************************************************************)
EXTENDS Integers, Sequences, FiniteSets

\* ---------------------------------------------------------------- bounds
MaxDelta == 2
MaxMantissa == 5
MaxShift == 30
ChannelStride == 128
GridStep == 400
GrayStep == 10
JunkStride == 129
MaxEdits == 1

\* ------------------------------------------------------- 32-bit integers
INT_MAX == 2147483647
INT_MIN == -INT_MAX - 1

Min(a, b) == IF a < b THEN a ELSE b

Abs(x) == IF x < 0 THEN -x ELSE x

Sign(x) == IF x < 0 THEN -1 ELSE 1

\* a & b on two's complement integers (sign extended)
RECURSIVE BitAnd(_, _)
BitAnd(a, b) ==
    IF a = 0 \/ b = 0 THEN 0
    ELSE IF a = -1 THEN b
    ELSE IF b = -1 THEN a
    ELSE (IF a % 2 = 1 /\ b % 2 = 1 THEN 1 ELSE 0)
         + 2 * BitAnd((a - (a % 2)) \div 2, (b - (b % 2)) \div 2)

\* a | b on two's complement integers (sign extended)
RECURSIVE BitOr(_, _)
BitOr(a, b) ==
    IF a = 0 THEN b
    ELSE IF b = 0 THEN a
    ELSE IF a = -1 \/ b = -1 THEN -1
    ELSE (IF a % 2 = 1 \/ b % 2 = 1 THEN 1 ELSE 0)
         + 2 * BitOr((a - (a % 2)) \div 2, (b - (b % 2)) \div 2)

\* c >> k on a signed int (arithmetic shift)
Shr(c, k) == (c - (c % (2 ^ k))) \div (2 ^ k)

\* conversion of an int to char: the low 8 bits, seen through the
\* signedness of plain char
ToChar(x, charSigned) ==
    LET u == x % 256
    IN  IF charSigned /\ u >= 128 THEN u - 256 ELSE u

\* a char read as an unsigned byte
UByte(ch) == ch % 256

\* -------------------------------------------------------- icon predicates
nvgIsImageIcon(value) == value < 1024

\* mutation: the boundary value 1024 excluded
nvgIsFontIcon_Strict(value) == value > 1024

nvgIsFontIcon(value) == value >= 1024

\* ------------------------------------------------------------------ utf8
\* mutation: the comparisons made on an unsigned c, so that a negative c
\* passes none of them and n stays 0
SelectLength_Unsigned(c) ==
    IF c < 0 THEN 0
    ELSE IF c < 128 THEN 1
    ELSE IF c < 2048 THEN 2
    ELSE IF c < 65536 THEN 3
    ELSE IF c < 2097152 THEN 4
    ELSE IF c < 67108864 THEN 5
    ELSE 6

SelectLength(c) ==
    IF c < 128 THEN 1
    ELSE IF c < 2048 THEN 2
    ELSE IF c < 65536 THEN 3
    ELSE IF c < 2097152 THEN 4
    ELSE IF c < 67108864 THEN 5
    ELSE IF c <= INT_MAX THEN 6
    ELSE 0

\* mutation: case 2 ORs 0x80 instead of 0xc0 into the lead byte
CaseMarker_Lead80(k) ==
    CASE k = 6 -> 67108864
      [] k = 5 -> 2097152
      [] k = 4 -> 65536
      [] k = 3 -> 2048
      [] k = 2 -> 128

\* the marker OR-ed into c at the end of case k of the switch
CaseMarker(k) ==
    CASE k = 6 -> 67108864
      [] k = 5 -> 2097152
      [] k = 4 -> 65536
      [] k = 3 -> 2048
      [] k = 2 -> 192

\* mutation: the continuation byte keeps 5 payload bits instead of 6
ContinuationByte_Mask1f(c) == BitOr(128, BitAnd(c, 31))

\* the continuation byte stored by cases 6..2: 0x80 | (c & 0x3f)
ContinuationByte(c) == BitOr(128, BitAnd(c, 63))

\* one case k in 2..6 of the switch: seq[k-1] = 0x80 | (c & 0x3f);
\* c = c >> 6; c |= marker.  written collects the indices assigned.
SwitchCase(k, st, charSigned) ==
    [c       |-> BitOr(Shr(st.c, 6), CaseMarker(k)),
     seq     |-> [st.seq EXCEPT ![k - 1] = ToChar(ContinuationByte(st.c), charSigned)],
     written |-> st.written \cup {k - 1}]

\* case 1: seq[0] = c
SwitchCase1(st, charSigned) ==
    [c       |-> st.c,
     seq     |-> [st.seq EXCEPT ![0] = ToChar(st.c, charSigned)],
     written |-> st.written \cup {0}]

\* the switch with fall-through: entering at case n runs cases n, n-1, .., 1
RECURSIVE FallThrough(_, _, _)
FallThrough(k, st, charSigned) ==
    IF k >= 2 THEN FallThrough(k - 1, SwitchCase(k, st, charSigned), charSigned)
    ELSE IF k = 1 THEN SwitchCase1(st, charSigned)
    ELSE st

\* the body of utf8(c); junk is the content of the uninitialised array seq,
\* which the elements never assigned keep.  The result records the array,
\* the local n and the indices assigned.
utf8Run(c, junk, charSigned) ==
    LET n    == SelectLength(c)
        seq0 == [i \in 0..7 |-> IF i = n THEN 0 ELSE junk[i]]
        st   == FallThrough(n, [c |-> c, seq |-> seq0, written |-> {n}], charSigned)
    IN  [seq |-> st.seq, n |-> n, written |-> st.written]

\* the value utf8(c) returns
utf8(c, junk, charSigned) == utf8Run(c, junk, charSigned).seq

\* ---------------------------------------------------------------- floats
\* a binary32 value is <<m, e>>, standing for m * 2^e: zero is <<0, -149>>,
\* a normal value has 2^23 <= |m| < 2^24 and e >= -149, a subnormal value
\* has |m| < 2^23 and e = -149
FZero == <<0, -149>>

RECURSIVE BitLen(_)
BitLen(x) == IF x = 0 THEN 0 ELSE 1 + BitLen(x \div 2)

\* the binary32 value nearest (ties to even) to a value v with
\* M * 2^e <= v < (M + 1) * 2^e, where v > M * 2^e exactly when sticky
RECURSIVE RoundNearestEven(_, _, _)
RoundNearestEven(M, e, sticky) ==
    LET len   == BitLen(M)
        e1    == IF e + len - 24 > -149 THEN e + len - 24 ELSE -149
        shift == e1 - e
    IN  IF M = 0 THEN FZero
        ELSE IF shift > 30 THEN RoundNearestEven(M \div 2, e + 1, sticky \/ M % 2 = 1)
        ELSE IF shift <= 0 THEN <<M * (2 ^ (-shift)), e1>>
        ELSE LET q    == M \div (2 ^ shift)
                 rem  == M % (2 ^ shift)
                 half == 2 ^ (shift - 1)
                 up   == rem > half \/ (rem = half /\ (sticky \/ q % 2 = 1))
                 m    == IF up THEN q + 1 ELSE q
             IN  IF m = 16777216 THEN <<8388608, e1 + 1>>
                 ELSE IF m = 0 THEN FZero
                 ELSE <<m, e1>>

Signed(s, x) == <<s * x[1], x[2]>>

\* conversion int -> float
IntToFloat(i) == Signed(Sign(i), RoundNearestEven(Abs(i), 0, FALSE))

\* x * y: the 48-bit product of the mantissas is H * 2^24 + L
FMul(x, y) ==
    LET ax == Abs(x[1])
        ay == Abs(y[1])
        a1 == ax \div 4096
        b1 == ax % 4096
        a2 == ay \div 4096
        b2 == ay % 4096
        mid == a1 * b2 + a2 * b1
        lowFull == b1 * b2 + (mid % 4096) * 4096
        L == lowFull % 16777216
        H == a1 * a2 + (mid \div 4096) + (lowFull \div 16777216)
        s == IF 30 - BitLen(H) < 24 THEN 30 - BitLen(H) ELSE 24
        M == H * (2 ^ s) + (L \div (2 ^ (24 - s)))
        sticky == L % (2 ^ (24 - s)) # 0
    IN  Signed(Sign(x[1]) * Sign(y[1]),
               IF H = 0 THEN RoundNearestEven(L, x[2] + y[2], FALSE)
               ELSE RoundNearestEven(M, x[2] + y[2] + (24 - s), sticky))

\* long division: steps more quotient bits of r / d appended to q
RECURSIVE DivBits(_, _, _, _)
DivBits(r, d, q, steps) ==
    IF steps = 0 THEN <<q, r>>
    ELSE IF 2 * r >= d THEN DivBits(2 * r - d, d, 2 * q + 1, steps - 1)
    ELSE DivBits(2 * r, d, 2 * q, steps - 1)

\* x / y for y # 0
FDiv(x, y) ==
    LET ax == Abs(x[1])
        ay == Abs(y[1])
        kx == 24 - BitLen(ax)
        ky == 24 - BitLen(ay)
        nx == ax * (2 ^ kx)
        ny == ay * (2 ^ ky)
        qr == DivBits(nx % ny, ny, nx \div ny, 26)
    IN  IF ax = 0 THEN FZero
        ELSE Signed(Sign(x[1]) * Sign(y[1]),
                    RoundNearestEven(qr[1], (x[2] - kx) - (y[2] - ky) - 26, qr[2] # 0))

\* |x| < |y|
MagLess(x, y) == x[2] < y[2] \/ (x[2] = y[2] /\ Abs(x[1]) < Abs(y[1]))

\* x < y
FLess(x, y) ==
    IF x[1] < 0 /\ y[1] >= 0 THEN TRUE
    ELSE IF x[1] >= 0 /\ y[1] < 0 THEN FALSE
    ELSE IF x[1] >= 0 THEN MagLess(x, y)
    ELSE MagLess(y, x)

\* x + y: the smaller operand is aligned to the larger with six extra bits
\* and a sticky flag for what is shifted out
FAdd(x, y) ==
    LET big   == IF MagLess(x, y) THEN y ELSE x
        small == IF MagLess(x, y) THEN x ELSE y
        ab    == Abs(big[1])
        as    == Abs(small[1])
        d     == big[2] - small[2]
        same  == Sign(big[1]) = Sign(small[1])
        sh    == d - 6
        q     == IF sh >= 24 THEN 0 ELSE as \div (2 ^ sh)
        st    == IF sh >= 24 THEN TRUE ELSE as % (2 ^ sh) # 0
    IN  IF as = 0 THEN big
        ELSE Signed(Sign(big[1]),
               IF d <= 6
               THEN RoundNearestEven(IF same THEN ab * (2 ^ d) + as ELSE ab * (2 ^ d) - as,
                                     small[2], FALSE)
               ELSE RoundNearestEven(IF same THEN ab * 64 + q
                                     ELSE ab * 64 - q - (IF st THEN 1 ELSE 0),
                                     big[2] - 6, st))

\* a float literal given in thousandths (0.299f is Milli(299)): the
\* binary32 value nearest to t / 1000
Milli(t) == FDiv(IntToFloat(t), IntToFloat(1000))

\* mutation: division by 256 instead of 255
CastDiv256(v) == [i \in DOMAIN v |-> FDiv(IntToFloat(v[i]), IntToFloat(256))]

\* Eigen: v.cast<float>() / 255.f, componentwise
CastDiv255(v) == [i \in DOMAIN v |-> FDiv(IntToFloat(v[i]), IntToFloat(255))]

\* Eigen: Vector3::Constant(x)
Constant3(x) == <<x, x, x>>

\* Eigen: a.cwiseProduct(b)
cwiseProduct(a, b) == [i \in DOMAIN a |-> FMul(a[i], b[i])]

\* the orders in which a build's Eigen adds the four coefficients
SumOrders == {"sequential", "halves", "strided"}

\* Eigen: v.sum() of a 4-vector
sum(v, order) ==
    CASE order = "sequential" -> FAdd(FAdd(FAdd(v[1], v[2]), v[3]), v[4])
      [] order = "halves"     -> FAdd(FAdd(v[1], v[2]), FAdd(v[3], v[4]))
      [] order = "strided"    -> FAdd(FAdd(v[1], v[3]), FAdd(v[2], v[4]))

\* ----------------------------------------------------------------- Color
\* a Color is the 4-vector <<r, g, b, a>> of floats

\* Color (const Eigen::Vector4f & color)
Color_Vector4f(color) == color

\* template <typename Derived> Color (const Eigen::MatrixBase<Derived> & p)
Color_MatrixBase(p) == p

\* Color (float r, float g, float b, float a)
Color_4float(r, g, b, a) == Color_Vector4f(<<r, g, b, a>>)

\* Color (const Eigen::Vector3f & color, float alpha)
Color_Vector3f_float(color, alpha) == Color_4float(color[1], color[2], color[3], alpha)

\* Color (const Eigen::Vector3i & color, int alpha)
Color_Vector3i_int(color, alpha) ==
    Color_Vector3f_float(CastDiv255(color), FDiv(IntToFloat(alpha), IntToFloat(255)))

\* Color (const Eigen::Vector3f & color)
Color_Vector3f(color) == Color_Vector3f_float(color, IntToFloat(1))

\* Color (const Eigen::Vector3i & color)
Color_Vector3i(color) == Color_Vector3f(CastDiv255(color))

\* Color (const Eigen::Vector4i & color)
Color_Vector4i(color) == Color_Vector4f(CastDiv255(color))

\* Color (float intensity, float alpha)
Color_float_float(intensity, alpha) == Color_Vector3f_float(Constant3(intensity), alpha)

\* Color (int intensity, int alpha)
Color_int_int(intensity, alpha) == Color_Vector3i_int(Constant3(intensity), alpha)

\* Color (int r, int g, int b, int a)
Color_4int(r, g, b, a) == Color_Vector4i(<<r, g, b, a>>)

\* Color()
Color_default == Color_4int(0, 0, 0, 0)

\* Color & operator= (const Eigen::MatrixBase<Derived> & p): the object after
Color_assign(self, p) == p

\* float & r(), g(), b(): the object after a write through the reference
\* to channel i (1, 2 or 3)
SetChannel(self, i, v) == [self EXCEPT ![i] = v]

\* the weights of contrastingColor: Color (0.299f, 0.587f, 0.144f, 0.f)
LuminanceWeights == Color_4float(Milli(299), Milli(587), Milli(144), Milli(0))

Luminance(self, order) == sum(cwiseProduct(self, LuminanceWeights), order)

\* mutation: the result built from int literals, which selects
\* Color (int intensity, int alpha)
contrastingColor_IntOverload(self, order) ==
    Color_int_int(IF FLess(sum(cwiseProduct(self,
                                   Color_4float(Milli(299), Milli(587), Milli(144), Milli(0))),
                               order),
                           Milli(500))
                  THEN 1 ELSE 0,
                  1)

contrastingColor(self, order) ==
    Color_float_float(IF FLess(Luminance(self, order), Milli(500)) THEN IntToFloat(1)
                      ELSE IntToFloat(0),
                      IntToFloat(1))

\* ------------------------------------------------------------- key codes
\* mutation: ALT_DOWN overlapping SHIFT_DOWN
ALT_DOWN_Overlap == 16 + 8

SHIFT_DOWN == 8
ALT_DOWN == 16
CTRL_DOWN == 32
META_DOWN == 64

\* ACCEL_DOWN under #if (defined( CINDER_MSW ) || defined( CINDER_WINRT ))
ACCEL_DOWN(cinderMsw) == IF cinderMsw THEN CTRL_DOWN ELSE META_DOWN

KEY_LSUPER == 311

\* SYSTEM_COMMAND_MOD under #ifdef __APPLE__
SYSTEM_COMMAND_MOD(apple) == IF apple THEN KEY_LSUPER ELSE CTRL_DOWN

ModifierFlags == {SHIFT_DOWN, ALT_DOWN, CTRL_DOWN, META_DOWN}

\* the mask of a set of held modifiers: the flags OR-ed together
RECURSIVE OrAll(_)
OrAll(S) ==
    IF S = {} THEN 0
    ELSE LET f == CHOOSE x \in S : TRUE
         IN  BitOr(f, OrAll(S \ {f}))

ModifierNames == {"SHIFT", "ALT", "CTRL", "META"}

FlagOf(name) ==
    CASE name = "SHIFT" -> SHIFT_DOWN
      [] name = "ALT"   -> ALT_DOWN
      [] name = "CTRL"  -> CTRL_DOWN
      [] name = "META"  -> META_DOWN

\* ---------------------------------------------------------------- inputs
Thresholds == {0, 128, 256, 1024, 2048, 65536, 2097152, 67108864}

NearInputs == {b + d : b \in Thresholds, d \in (-MaxDelta)..MaxDelta}

ShiftInputs ==
    UNION {{m * (2 ^ k) : m \in 1..Min(MaxMantissa, INT_MAX \div (2 ^ k))} :
           k \in 0..Min(MaxShift, 30)}

PatternInputs ==
    {Shr(1431655765, k) : k \in 0..Min(MaxShift, 30)}
    \cup {Shr(715827882, k) : k \in 0..Min(MaxShift, 30)}
    \cup {INT_MAX - d : d \in 0..MaxDelta}

NonNegativeInputs == {x \in NearInputs \cup ShiftInputs \cup PatternInputs : x >= 0}

\* the bitwise complements of the thresholds, and the
\* values from INT_MIN up
NegativeInputs ==
    {-x - 1 : x \in Thresholds} \cup {INT_MIN + d : d \in 0..MaxDelta}

\* the int arguments tried
IntInputs == NonNegativeInputs \cup NegativeInputs

\* the bytes tried as the content of an element never assigned: every
\* JunkStride-th of the 256 values
JunkBytes == {b \in 0..255 : b % JunkStride = 0}

\* integer channels in 0..255
IntChannels == {x \in 0..255 : x % ChannelStride = 0} \cup {255}

\* float channels in 0..1, in thousandths
FloatGrid == {t \in 0..1000 : t % GridStep = 0}

\* gray intensities around the threshold 0.5, in thousandths
GrayGrid == {t \in 400..600 : t % GrayStep = 0}

\* the floats written by an assignment or through an accessor, in thousandths
EditValues == {t \in FloatGrid : t >= 2 * GridStep}

\* ----------------------------------------------------------------- state
VARIABLES
    charSigned,   \* build: plain char is signed
    cinderMsw,    \* build: CINDER_MSW or CINDER_WINRT is defined
    apple,        \* build: __APPLE__ is defined
    sumOrder,     \* build: the order in which Eigen's sum() adds
    op,           \* the function called last
    c,            \* utf8: the argument
    seq,          \* utf8: the array returned
    n,            \* utf8: the local n
    written,      \* utf8: the array indices assigned
    icon,         \* icon predicates: the argument
    isImage,      \* nvgIsImageIcon(icon)
    isFont,       \* nvgIsFontIcon(icon)
    args,         \* Color: the arguments of the call (floats in thousandths)
    color,        \* Color: the object
    edits,        \* Color: the number of assignments and writes to the object
    result,       \* Color: what contrastingColor returned
    held,         \* modifiers: the names of the modifiers held
    mask,         \* modifiers: their flags OR-ed
    accelDown,    \* mask & ACCEL_DOWN is nonzero
    cmdDown       \* mask & SYSTEM_COMMAND_MOD is nonzero

buildVars == <<charSigned, cinderMsw, apple, sumOrder>>
utf8Vars == <<c, seq, n, written>>
iconVars == <<icon, isImage, isFont>>
colorVars == <<args, color, edits, result>>
modVars == <<held, mask, accelDown, cmdDown>>
vars == <<buildVars, op, utf8Vars, iconVars, colorVars, modVars>>

NoSeq == [i \in 0..7 |-> 0]

NoUtf8 == c' = 0 /\ seq' = NoSeq /\ n' = 0 /\ written' = {}
NoIcon == icon' = 0 /\ isImage' = FALSE /\ isFont' = FALSE
NoColor == args' = <<>> /\ color' = Color_default /\ edits' = 0 /\ result' = Color_default
NoMod == held' = {} /\ mask' = 0 /\ accelDown' = FALSE /\ cmdDown' = FALSE

Init ==
    /\ charSigned \in BOOLEAN
    /\ cinderMsw \in BOOLEAN
    /\ apple \in BOOLEAN
    /\ ~(apple /\ cinderMsw)
    /\ sumOrder \in SumOrders
    /\ op = "none"
    /\ c = 0 /\ seq = NoSeq /\ n = 0 /\ written = {}
    /\ icon = 0 /\ isImage = FALSE /\ isFont = FALSE
    /\ args = <<>> /\ color = Color_default /\ edits = 0 /\ result = Color_default
    /\ held = {} /\ mask = 0 /\ accelDown = FALSE /\ cmdDown = FALSE

\* ------------------------------------------------------------- the calls
\* utf8(cc): the elements above n are never assigned and keep whatever the
\* array held, each its own byte; the elements up to n are assigned, so what
\* they held does not matter
CallUtf8 ==
    /\ op = "none"
    /\ \E cc \in IntInputs :
           \E j \in [(SelectLength(cc) + 1)..7 -> JunkBytes] :
               LET junk == [i \in 0..7 |-> IF i \in DOMAIN j
                                           THEN ToChar(j[i], charSigned) ELSE 0]
                   run  == utf8Run(cc, junk, charSigned)
               IN  /\ op' = "utf8"
                   /\ c' = cc
                   /\ seq' = run.seq
                   /\ n' = run.n
                   /\ written' = run.written
    /\ NoIcon /\ NoColor /\ NoMod
    /\ UNCHANGED buildVars

CallIconPredicates ==
    /\ op = "none"
    /\ \E v \in IntInputs :
           /\ op' = "icon"
           /\ icon' = v
           /\ isImage' = nvgIsImageIcon(v)
           /\ isFont' = nvgIsFontIcon(v)
    /\ NoUtf8 /\ NoColor /\ NoMod
    /\ UNCHANGED buildVars

\* a constructor call (made from the idle state): the frame holds its name,
\* arguments and the object
Construct(name, a, obj) ==
    /\ op' = name
    /\ args' = a
    /\ color' = obj
    /\ edits' = 0
    /\ result' = Color_default
    /\ NoUtf8 /\ NoIcon /\ NoMod
    /\ UNCHANGED buildVars

NewDefault == op = "none" /\ Construct("Color_default", <<>>, Color_default)

New4int ==
    /\ op = "none"
    /\ \E r \in IntChannels, g \in IntChannels, b \in IntChannels, a \in IntChannels :
           Construct("Color_4int", <<r, g, b, a>>, Color_4int(r, g, b, a))

NewVector4i ==
    /\ op = "none"
    /\ \E r \in IntChannels, g \in IntChannels, b \in IntChannels, a \in IntChannels :
           Construct("Color_Vector4i", <<r, g, b, a>>, Color_Vector4i(<<r, g, b, a>>))

NewVector3i ==
    /\ op = "none"
    /\ \E r \in IntChannels, g \in IntChannels, b \in IntChannels :
           Construct("Color_Vector3i", <<r, g, b>>, Color_Vector3i(<<r, g, b>>))

NewVector3iInt ==
    /\ op = "none"
    /\ \E r \in IntChannels, g \in IntChannels, b \in IntChannels, a \in IntChannels :
           Construct("Color_Vector3i_int", <<r, g, b, a>>, Color_Vector3i_int(<<r, g, b>>, a))

NewIntInt ==
    /\ op = "none"
    /\ \E i \in IntChannels, a \in IntChannels :
           Construct("Color_int_int", <<i, a>>, Color_int_int(i, a))

New4float ==
    /\ op = "none"
    /\ \E r \in FloatGrid, g \in FloatGrid, b \in FloatGrid, a \in FloatGrid :
           Construct("Color_4float", <<r, g, b, a>>,
                     Color_4float(Milli(r), Milli(g), Milli(b), Milli(a)))

NewVector4f ==
    /\ op = "none"
    /\ \E r \in FloatGrid, g \in FloatGrid, b \in FloatGrid, a \in FloatGrid :
           Construct("Color_Vector4f", <<r, g, b, a>>,
                     Color_Vector4f(<<Milli(r), Milli(g), Milli(b), Milli(a)>>))

NewFromMatrix ==
    /\ op = "none"
    /\ \E r \in FloatGrid, g \in FloatGrid, b \in FloatGrid, a \in FloatGrid :
           Construct("Color_MatrixBase", <<r, g, b, a>>,
                     Color_MatrixBase(<<Milli(r), Milli(g), Milli(b), Milli(a)>>))

NewVector3f ==
    /\ op = "none"
    /\ \E r \in FloatGrid, g \in FloatGrid, b \in FloatGrid :
           Construct("Color_Vector3f", <<r, g, b>>,
                     Color_Vector3f(<<Milli(r), Milli(g), Milli(b)>>))

NewVector3fFloat ==
    /\ op = "none"
    /\ \E r \in FloatGrid, g \in FloatGrid, b \in FloatGrid, a \in FloatGrid :
           Construct("Color_Vector3f_float", <<r, g, b, a>>,
                     Color_Vector3f_float(<<Milli(r), Milli(g), Milli(b)>>, Milli(a)))

NewFloatFloat ==
    /\ op = "none"
    /\ \E i \in GrayGrid, a \in FloatGrid :
           Construct("Color_float_float", <<i, a>>, Color_float_float(Milli(i), Milli(a)))

ColorOps ==
    {"Color_default", "Color_4int", "Color_Vector4i", "Color_Vector3i",
     "Color_Vector3i_int", "Color_int_int", "Color_4float", "Color_Vector4f",
     "Color_MatrixBase", "Color_Vector3f", "Color_Vector3f_float", "Color_float_float"}

EditOps == {"operator=", "r()", "g()", "b()"}

\* the frames in which a Color object exists
LiveOps == ColorOps \cup EditOps \cup {"contrastingColor"}

\* an object exists and may still be changed
Editable == op \in LiveOps /\ edits < MaxEdits

\* an assignment or a write to the object: the frame holds its name and
\* arguments and the object as changed
Edit(name, a, obj) ==
    /\ op' = name
    /\ args' = a
    /\ color' = obj
    /\ edits' = edits + 1
    /\ result' = Color_default
    /\ UNCHANGED <<buildVars, utf8Vars, iconVars, modVars>>

\* color = p
Assign ==
    /\ Editable
    /\ \E v \in EditValues, a \in EditValues :
           Edit("operator=", <<v, v, v, a>>,
                Color_assign(color, <<Milli(v), Milli(v), Milli(v), Milli(a)>>))

\* color.r() = v
WriteR ==
    /\ Editable
    /\ \E v \in EditValues : Edit("r()", <<v>>, SetChannel(color, 1, Milli(v)))

\* color.g() = v
WriteG ==
    /\ Editable
    /\ \E v \in EditValues : Edit("g()", <<v>>, SetChannel(color, 2, Milli(v)))

\* color.b() = v
WriteB ==
    /\ Editable
    /\ \E v \in EditValues : Edit("b()", <<v>>, SetChannel(color, 3, Milli(v)))

\* color.contrastingColor() (a const method)
CallContrastingColor ==
    /\ op \in LiveOps
    /\ op' = "contrastingColor"
    /\ result' = contrastingColor(color, sumOrder)
    /\ UNCHANGED <<args, color, edits>>
    /\ UNCHANGED <<buildVars, utf8Vars, iconVars, modVars>>

\* a test of a modifier mask against ACCEL_DOWN and SYSTEM_COMMAND_MOD
CallModifierTest ==
    /\ op = "none"
    /\ \E h \in SUBSET ModifierNames :
           LET m == OrAll({FlagOf(x) : x \in h})
           IN  /\ op' = "modifiers"
               /\ held' = h
               /\ mask' = m
               /\ accelDown' = (BitAnd(m, ACCEL_DOWN(cinderMsw)) # 0)
               /\ cmdDown' = (BitAnd(m, SYSTEM_COMMAND_MOD(apple)) # 0)
    /\ NoUtf8 /\ NoIcon /\ NoColor
    /\ UNCHANGED buildVars

\* the caller drops the frame
Return ==
    /\ op # "none"
    /\ op' = "none"
    /\ NoUtf8 /\ NoIcon /\ NoColor /\ NoMod
    /\ UNCHANGED buildVars

Next ==
    \/ CallUtf8
    \/ CallIconPredicates
    \/ NewDefault
    \/ New4int
    \/ NewVector4i
    \/ NewVector3i
    \/ NewVector3iInt
    \/ NewIntInt
    \/ New4float
    \/ NewVector4f
    \/ NewFromMatrix
    \/ NewVector3f
    \/ NewVector3fFloat
    \/ NewFloatFloat
    \/ Assign
    \/ WriteR
    \/ WriteG
    \/ WriteB
    \/ CallContrastingColor
    \/ CallModifierTest
    \/ Return

Spec == Init /\ [][Next]_vars

TypeOK ==
    /\ op \in LiveOps \cup {"none", "utf8", "icon", "modifiers"}
    /\ n \in 0..6
    /\ \A i \in 0..7 : seq[i] \in -128..255
    /\ edits \in 0..MaxEdits

\* ------------------------------------------------------------ properties
\* the bytes of the returned array before index k, read as unsigned bytes
BytesBefore(k) == [i \in 1..k |-> UByte(seq[i - 1])]

\* the standard shortest-form UTF-8 encoding of a scalar value x
StandardUtf8(x) ==
    IF x < 128 THEN <<x>>
    ELSE IF x < 2048 THEN <<192 + (x \div 64), 128 + (x % 64)>>
    ELSE IF x < 65536 THEN
        <<224 + (x \div 4096), 128 + ((x \div 64) % 64), 128 + (x % 64)>>
    ELSE <<240 + (x \div 262144), 128 + ((x \div 4096) % 64),
           128 + ((x \div 64) % 64), 128 + (x % 64)>>

IsScalarValue(x) == x >= 0 /\ x <= 1114111 /\ ~(x >= 55296 /\ x <= 57343)

\* C1: for every Unicode scalar value c, the bytes utf8(c) places before the
\* terminator are the standard shortest-form UTF-8 encoding of c (1, 2, 3 or
\* 4 bytes by the thresholds 0x80, 0x800, 0x10000) and byte n is 0.
C1_Utf8Standard ==
    (op = "utf8" /\ IsScalarValue(c)) =>
        /\ n = Len(StandardUtf8(c))
        /\ BytesBefore(n) = StandardUtf8(c)
        /\ seq[n] = 0

C1_Witness == op = "utf8" /\ c > 65536 /\ c <= 1114111 /\ n = 4 /\ charSigned

\* C5: for every int c the length selector ends in 1..6 and the indices
\* assigned (the terminator at n and the bytes 0..n-1) are inside the array.
C5_Utf8Total ==
    op = "utf8" =>
        /\ n \in 1..6
        /\ written = 0..n
        /\ written \subseteq 0..7

C5_Witness == op = "utf8" /\ c = INT_MIN /\ n = 1

\* the smallest length of the generalised scheme whose payload holds x
PayloadHolds(k, x) == k = 6 \/ x < (IF k = 1 THEN 128 ELSE 2 ^ (5 * k + 1))

MinimalLength(x) ==
    CHOOSE k \in 1..6 : PayloadHolds(k, x) /\ \A j \in 1..(k - 1) : ~PayloadHolds(j, x)

\* decoding of k bytes in the generalised 1-to-6-byte scheme; -1 when the
\* bytes are not of that form
RECURSIVE DecodeTail(_, _, _)
DecodeTail(bytes, i, acc) ==
    IF i > Len(bytes) THEN acc
    ELSE IF bytes[i] \div 64 # 2 THEN -1
    ELSE DecodeTail(bytes, i + 1, acc * 64 + (bytes[i] % 64))

Decode(bytes) ==
    LET k == Len(bytes)
    IN  IF k = 1 THEN (IF bytes[1] < 128 THEN bytes[1] ELSE -1)
        ELSE IF bytes[1] \div (2 ^ (7 - k)) # (2 ^ (k + 1)) - 2 THEN -1
        ELSE DecodeTail(bytes, 2, bytes[1] % (2 ^ (7 - k)))

\* C7: for every c in 0..0x7fffffff, decoding the n bytes of utf8(c) in the
\* generalised 1-to-6-byte scheme yields c, and n is the smallest length
\* whose payload holds c.
C7_Utf8RoundTrip ==
    (op = "utf8" /\ c >= 0) =>
        /\ n = MinimalLength(c)
        /\ Decode(BytesBefore(n)) = c

C7_Witness == op = "utf8" /\ c > 67108864 /\ n = 6 /\ UByte(seq[0]) = 253

\* the n bytes are a well-formed sequence of the generalised scheme
WellFormed(bytes) ==
    LET k == Len(bytes)
    IN  /\ k >= 1
        /\ IF k = 1 THEN bytes[1] \in 0..127
           ELSE /\ bytes[1] \div (2 ^ (7 - k)) = (2 ^ (k + 1)) - 2
                /\ \A i \in 2..k : bytes[i] \in 128..191

\* C9: for every int c, negative values included, the bytes before the
\* terminator are well formed, and for c other than 0 none of them is 0.
C9_Utf8WellFormedAll ==
    op = "utf8" =>
        /\ WellFormed(BytesBefore(n))
        /\ (c # 0 => \A i \in 0..(n - 1) : seq[i] # 0)

\* C3: exactly one of nvgIsImageIcon and nvgIsFontIcon holds of every int,
\* the first exactly below 1024 and the second exactly from 1024 on.
C3_IconPartition ==
    op = "icon" =>
        /\ isImage # isFont
        /\ isImage = (icon < 1024)
        /\ isFont = (icon >= 1024)

C3_Witness == op = "icon" /\ icon = 1024 /\ isFont /\ ~isImage

IsPowerOfTwo(x) == \E k \in 0..30 : x = 2 ^ k

\* C4: the four modifier flags are single bits, pairwise disjoint; every
\* set of held modifiers has its own mask and each flag is recovered from
\* the mask by AND; ACCEL_DOWN is CTRL_DOWN on MSW/WINRT, META_DOWN otherwise.
C4_ModifierFlags ==
    op = "modifiers" =>
        /\ \A x \in ModifierNames : IsPowerOfTwo(FlagOf(x))
        /\ \A x \in ModifierNames : \A y \in ModifierNames \ {x} :
               BitAnd(FlagOf(x), FlagOf(y)) = 0
        /\ \A x \in ModifierNames : (BitAnd(mask, FlagOf(x)) # 0) = (x \in held)
        /\ \A S \in SUBSET ModifierNames :
               (OrAll({FlagOf(x) : x \in S}) = mask) => S = held
        /\ ACCEL_DOWN(cinderMsw) = FlagOf(IF cinderMsw THEN "CTRL" ELSE "META")
        /\ accelDown = ((IF cinderMsw THEN "CTRL" ELSE "META") \in held)

C4_Witness ==
    op = "modifiers" /\ held = {"SHIFT", "META"} /\ mask = 72 /\ ~cinderMsw /\ accelDown

\* C6: in both configurations SYSTEM_COMMAND_MOD is one of the four modifier
\* flags, and a mask tests nonzero against it exactly when that modifier is
\* held.
C6_CommandModIsFlag ==
    op = "modifiers" =>
        \E x \in ModifierNames :
            /\ SYSTEM_COMMAND_MOD(apple) = FlagOf(x)
            /\ cmdDown = (x \in held)

FOne == <<8388608, -23>>

White == <<FOne, FOne, FOne, FOne>>
Black == <<FZero, FZero, FZero, FOne>>

\* 0 <= x <= 1
InUnit(x) == x[1] >= 0 /\ ~FLess(FOne, x)

\* floor(x * 2^20) for a float x in 0..1
Scaled20(x) ==
    IF -20 - x[2] > 30 THEN 0
    ELSE IF -20 - x[2] >= 0 THEN x[1] \div (2 ^ (-20 - x[2]))
    ELSE x[1] * (2 ^ (x[2] + 20))

\* the sum 299 r + 587 g + 144 b over the channels scaled by 2^20 and cut
\* to integers: 1000 * 2^20 times the exact weighted sum lies between it and
\* it plus 1030
WeightedSum(col) == 299 * Scaled20(col[1]) + 587 * Scaled20(col[2]) + 144 * Scaled20(col[3])

\* the room left for the rounding of the float operations (2^-9 of a
\* thousandth)
Slack == 2 ^ 11

\* C2: contrastingColor returns opaque white when the luminance, the sum of
\* r, g and b weighted 0.299, 0.587 and 0.144 (alpha has weight 0), is
\* strictly below 0.5 and opaque black otherwise; the result's alpha is 1
\* whatever the receiver's alpha, and the receiver is not modified.
C2_ContrastingColor ==
    [][op' = "contrastingColor" =>
          /\ color' = color
          /\ result' \in {White, Black}
          /\ result'[4] = FOne
          /\ (result' = White) = FLess(Luminance(color, sumOrder), Milli(500))
          /\ LuminanceWeights[4] = FZero
          /\ \A t \in FloatGrid :
                 contrastingColor(<<color[1], color[2], color[3], Milli(t)>>, sumOrder)
                     = result'
          /\ (\A i \in 1..3 : InUnit(color[i])) =>
                 /\ (WeightedSum(color) + 1030 + Slack < 500 * (2 ^ 20)) => result' = White
                 /\ (WeightedSum(color) - Slack >= 500 * (2 ^ 20)) => result' = Black
      ]_vars

C2_Witness ==
    /\ op = "contrastingColor" /\ edits = 0 /\ args = <<0, 400, 0, 400>>
    /\ color[4] # FOne /\ result = White

\* x is the float nearest to num / den, for 0 <= num <= den <= 1000:
\* twice |den * m - num * 2^s| is at most den, with x = m * 2^(-s) and the
\* difference computed over the halves of m
IsNearestFloat(x, num, den) ==
    LET m  == x[1]
        s  == -x[2]
        mh == m \div 4096
        ml == m % 4096
        A  == den * mh - num * (2 ^ (s - 12))
        D  == A * 4096 + den * ml
    IN  IF num = 0 THEN x = FZero
        ELSE /\ m > 0
             /\ s >= 12
             /\ BitLen(num) + s - 12 <= 30
             /\ Abs(A) <= 1024
             /\ 2 * Abs(D) <= den

\* C8: the integer constructors divide each channel by 255 (0 gives 0, 255
\* gives 1, every component in [0, 1]); a constructor given three channels
\* yields alpha 1; Color(int, int) yields (i/255, i/255, i/255, a/255); the
\* default constructor yields (0, 0, 0, 0).
C8_Constructors ==
    /\ op = "Color_4int" =>
           /\ \A i \in 1..4 : IsNearestFloat(color[i], args[i], 255) /\ InUnit(color[i])
           /\ \A i \in 1..4 : (args[i] = 0 => color[i] = FZero)
                              /\ (args[i] = 255 => color[i] = FOne)
    /\ op = "Color_Vector3i" =>
           /\ color = Color_Vector3i_int(args, 255)
           /\ \A i \in 1..3 : IsNearestFloat(color[i], args[i], 255)
           /\ color[4] = FOne
    /\ op = "Color_Vector3f" =>
           /\ color = Color_Vector3f_float(<<Milli(args[1]), Milli(args[2]), Milli(args[3])>>,
                                           FOne)
           /\ \A i \in 1..3 : IsNearestFloat(color[i], args[i], 1000)
           /\ color[4] = FOne
    /\ op = "Color_int_int" =>
           /\ \A i \in 1..3 : IsNearestFloat(color[i], args[1], 255)
           /\ IsNearestFloat(color[4], args[2], 255)
    /\ op = "Color_default" => color = <<FZero, FZero, FZero, FZero>>

C8_Witness ==
    /\ op = "Color_4int" /\ args = <<255, 0, 128, 255>>
    /\ color[1] = FOne /\ color[2] = FZero /\ FLess(color[3], color[4]) /\ FLess(Milli(500), color[3])

\* a float in 0..1 to the nearest thousandth
Thousandths(x) == (Scaled20(x) * 1000 + 2 ^ 19) \div (2 ^ 20)

\* C10: in integer thousandths, the luminance is a convex combination of r,
\* g and b: the weights are non-negative and sum to 1, a gray (v, v, v, a)
\* has luminance v, and contrastingColor of a gray is white exactly when
\* v < 0.5 and black exactly when v >= 0.5.
C10_LuminanceConvex ==
    (op = "contrastingColor" /\ color[1] = color[2] /\ color[2] = color[3]
     /\ InUnit(color[1])) =>
        /\ Thousandths(LuminanceWeights[1]) + Thousandths(LuminanceWeights[2])
               + Thousandths(LuminanceWeights[3]) = 1000
        /\ \A i \in 1..4 : LuminanceWeights[i][1] >= 0
        /\ Thousandths(LuminanceWeights[4]) = 0
        /\ Thousandths(Luminance(color, sumOrder)) = Thousandths(color[1])
        /\ (result = White) = (Thousandths(color[1]) < 500)
        /\ (result = Black) = (Thousandths(color[1]) >= 500)

====
